---------------------------- MODULE Spec2Model ----------------------------
(***************************************************************************)
(* State-machine model of cargo-insta's command line driver                *)
(* (cargo-insta/src/cli.rs): run, handle_color, handle_target_args,        *)
(* load_snapshot_containers, process_snapshots, query_snapshot,            *)
(* make_deletion_walker, test_run and pending_snapshots_cmd.               *)
(*                                                                         *)
(* Paths are sequences of components.  The process runs with the current   *)
(* directory /ws, so the relative path <<".">> and the absolute path       *)
(* <<"/ws">> name the same directory but are different PathBuf values.     *)
(* An absent Option<PathBuf> is the empty sequence.                        *)
(***************************************************************************)
EXTENDS Integers, Sequences, FiniteSets, TLC

\* ------------------------------------------------------------------ bounds
\* Highest line number of an inline snapshot in the source file b.rs.
MaxLine == 2
\* Number of bursts of writes the child test process performs before exiting.
MaxChildSteps == 1
\* Number of files whose removal fails during one collection.
MaxRemoveFailures == 1

\* ------------------------------------------------------------------- paths
NoPath == <<>>
Cwd == <<"/ws">>
RelRoot == <<".">>
SubDir == <<"/ws", "sub">>
SubManifest == <<"/ws", "sub", "Cargo.toml">>

Last(p) == p[Len(p)]
Parent(p) == SubSeq(p, 1, Len(p) - 1)
IsPrefix(p, q) == Len(p) <= Len(q) /\ SubSeq(q, 1, Len(p)) = p

\* Path::canonicalize / fs::canonicalize for a path that exists: a relative
\* path is resolved against the current directory.
Canonicalize(p) ==
    IF Len(p) > 0 /\ p[1] = "." THEN Cwd \o Tail(p) ELSE p

\* Path::display
RECURSIVE PathStr(_)
PathStr(p) ==
    IF Len(p) = 0 THEN ""
    ELSE IF Len(p) = 1 THEN p[1]
    ELSE PathStr(Parent(p)) \o "/" \o Last(p)

\* -------------------------------------------------------------- file system
\* Files the deletion walker can meet: the canonical directory, and the file
\* name split at its last dot.
AllFiles ==
    { [dir |-> <<"/ws", "snapshots">>, stem |-> "a", ext |-> "snap"],
      [dir |-> <<"/ws", "snapshots">>, stem |-> "b", ext |-> "snap"],
      [dir |-> <<"/ws", "snapshots">>, stem |-> "c", ext |-> "txt"],
      [dir |-> <<"/ws", "target">>, stem |-> "t", ext |-> "snap"],
      [dir |-> <<"/ws", "sub", "snapshots">>, stem |-> "n", ext |-> "snap"] }

FileName(f) == f.stem \o "." \o f.ext
\* Canonical path of a file of the tree.
FilePath(f) == f.dir \o << FileName(f) >>
\* str::ends_with("." + ext) on a file name.
EndsWithExt(f, ext) == f.ext = ext

\* Pending entries (SnapshotRef): an external entry has line 0 (no line), an
\* inline entry of b.rs has its line number.  dir is the crate directory the
\* source file lives in, ext the extension of an external artifact.
ExternalEntries ==
    { [file |-> "a.snap", line |-> 0, dir |-> Cwd, ext |-> "snap"],
      [file |-> "sub/c.snap", line |-> 0, dir |-> SubDir, ext |-> "snap"] }
InlineEntries ==
    { [file |-> "b.rs", line |-> l, dir |-> Cwd, ext |-> ""] : l \in 1..MaxLine }
Entries == ExternalEntries \cup InlineEntries

\* Source files holding entries, in discovery order.
ContainerFiles == << "a.snap", "b.rs", "sub/c.snap" >>

\* ---------------------------------------------------------------- state
VARIABLES
    opts,               \* Opts: the parsed command line (color, command, its arguments)
    env,                \* the parent's INSTA_UPDATE: Unset or <<value>>
    manifests,          \* which directories hold a Cargo.toml: [root, sub]
    tree,               \* artifact files present on disk (subset of AllFiles)
    pending,            \* entries with a candidate artifact on disk
    accepted,           \* per entry, the content of the artifact of record
    ref_file,           \* the temporary reference file: [exists, lines]
    pc,                 \* position of the single thread of control
    cmd,                \* test_run's `mut cmd: TestCommand`
    snapshot_ref_file,  \* test_run's snapshot_ref_file: Option<PathBuf> as BOOLEAN
    proc,               \* the process::Command built by test_run: [built, args, env]
    child,              \* the child test process: [state, steps, status]
    ps,                 \* the activation record of process_snapshots
    out,                \* what was printed: sequence of events
    phases,             \* history: the phases the command has entered, in order
    result              \* what run() returned: [kind, msg, code]

vars == << opts, env, manifests, tree, pending, accepted, ref_file, pc, cmd,
           snapshot_ref_file, proc, child, ps, out, phases, result >>

\* env::var("INSTA_UPDATE").ok(): <<>> when unset, else <<value>>.
Unset == <<>>

\* ------------------------------------------------ crate::cargo (not in src/)
\* Directory of a package.
PackageDir(pkg) == IF pkg = "root" THEN Cwd ELSE SubDir

\* Whether `dir` (canonical) holds a Cargo.toml that is a file.
HasManifest(dir) ==
    \/ dir = Cwd /\ manifests.root
    \/ dir = SubDir /\ manifests.sub # "plain"

\* get_package_metadata: `cargo metadata` for the manifest (or the ambient
\* project when absent).  [ok, workspace_root, members, root_package]
GetPackageMetadata(manifest_path) ==
    LET dir == IF manifest_path = NoPath THEN Cwd
               ELSE Canonicalize(Parent(manifest_path))
    IN  IF ~HasManifest(dir)
        THEN [ok |-> FALSE, workspace_root |-> NoPath, members |-> {}, root_package |-> ""]
        ELSE IF dir = SubDir /\ manifests.sub = "foreign"
        THEN [ok |-> TRUE, workspace_root |-> SubDir, members |-> {"sub"},
              root_package |-> "sub"]
        ELSE [ok |-> TRUE, workspace_root |-> Cwd,
              members |-> {"root"} \cup (IF manifests.sub = "member" THEN {"sub"} ELSE {}),
              root_package |-> IF dir = SubDir THEN "sub" ELSE "root"]

\* find_packages: every member with --all, else the manifest's own package.
FindPackages(metadata, all) ==
    IF all THEN metadata.members ELSE {metadata.root_package}

\* --------------------------------------------------------- handle_target_args
\* LocationInfo, or ok = FALSE for Err.  packages.some = FALSE is None.
LocErr == [ok |-> FALSE, workspace_root |-> NoPath,
           packages |-> [some |-> FALSE, set |-> {}], exts |-> <<>>, no_ignore |-> FALSE]

DefaultExts(extensions) == IF extensions = <<>> THEN <<"snap">> ELSE extensions

\* The (workspace_root, manifest_path) pair the match of lines 256-276 yields;
\* conflict = TRUE is its early return.
ResolveRootAndManifest(target_args) ==
    LET root == target_args.workspace_root
        manifest == target_args.manifest_path
        assumed_manifest == root \o <<"Cargo.toml">>
    IN  IF root # NoPath /\ manifest # NoPath
        THEN [conflict |-> TRUE, workspace_root |-> NoPath, manifest_path |-> NoPath]
        ELSE IF root = NoPath
        THEN [conflict |-> FALSE, workspace_root |-> NoPath, manifest_path |-> manifest]
        ELSE IF HasManifest(Canonicalize(root))
        THEN [conflict |-> FALSE, workspace_root |-> NoPath,
              manifest_path |-> assumed_manifest]
        ELSE [conflict |-> FALSE, workspace_root |-> root, manifest_path |-> manifest]

HandleTargetArgs(target_args) ==
    LET r == ResolveRootAndManifest(target_args)
        exts == DefaultExts(target_args.extensions)
        metadata == GetPackageMetadata(r.manifest_path)
    IN  IF r.conflict THEN LocErr
        ELSE IF r.workspace_root # NoPath
        THEN [ok |-> TRUE, workspace_root |-> r.workspace_root,
              packages |-> [some |-> FALSE, set |-> {}],
              exts |-> exts, no_ignore |-> target_args.no_ignore]
        ELSE IF ~metadata.ok THEN LocErr
        ELSE [ok |-> TRUE, workspace_root |-> metadata.workspace_root,
              packages |-> [some |-> TRUE,
                            set |-> FindPackages(metadata, target_args.all)],
              exts |-> exts, no_ignore |-> target_args.no_ignore]

\* The message of the error handle_target_args returns: the early return of
\* lines 260-264, else what `?` passes on at lines 286-287.
ConflictError == "both manifest-path and workspace-root provided."
TargetArgsError(target_args) ==
    IF ResolveRootAndManifest(target_args).conflict THEN ConflictError
    ELSE "cargo metadata"

\* ------------------------------------------------- load_snapshot_containers
InSeq(x, s) == \E i \in 1..Len(s) : s[i] = x

\* Whether discovery under `loc` yields entry e: inside the package set (or
\* under the workspace root), external artifacts only for a listed extension.
Owner(e) == IF e.dir = SubDir /\ manifests.sub # "plain" THEN "sub" ELSE "root"

InScope(loc, e) ==
    /\ IF loc.packages.some THEN Owner(e) \in loc.packages.set
       ELSE IsPrefix(Canonicalize(loc.workspace_root), e.dir)
    /\ e.line = 0 => InSeq(e.ext, loc.exts)

\* The entries of one container, ordered by appearance (line).
RECURSIVE EntriesByLine(_, _)
EntriesByLine(es, from) ==
    IF es = {} \/ from > MaxLine THEN <<>>
    ELSE LET here == {e \in es : e.line = from}
         IN  (IF here = {} THEN <<>> ELSE << CHOOSE e \in here : TRUE >>)
             \o EntriesByLine(es \ here, from + 1)

OpUnset == "Skip"

\* SnapshotContainer for source file `file`: its pending entries in scope,
\* each with the operation field unset (Operation::Skip).
Container(loc, file) ==
    LET es == {e \in pending : e.file = file /\ InScope(loc, e)}
        seq == EntriesByLine(es, 0)
    IN  [target_file |-> file,
         inline |-> \E e \in es : e.line # 0,
         refs |-> [i \in 1..Len(seq) |-> [entry |-> seq[i], op |-> OpUnset]]]

RECURSIVE ContainersFrom(_, _)
ContainersFrom(loc, i) ==
    IF i > Len(ContainerFiles) THEN <<>>
    ELSE LET c == Container(loc, ContainerFiles[i])
         IN  (IF Len(c.refs) = 0 THEN <<>> ELSE << c >>) \o ContainersFrom(loc, i + 1)

LoadSnapshotContainers(loc) == ContainersFrom(loc, 1)

RECURSIVE SumLen(_, _)
SumLen(containers, i) ==
    IF i > Len(containers) THEN 0
    ELSE Len(containers[i].refs) + SumLen(containers, i + 1)

\* snapshot_containers.iter().map(|x| x.0.len()).sum()
SnapshotCount(containers) == SumLen(containers, 1)

\* ------------------------------------------------------------ small values
\* What run() returns; code is the payload of utils::QuietExit.
Ok == [kind |-> "Ok", msg |-> "", code |-> 0]
Err(msg) == [kind |-> "Err", msg |-> msg, code |-> 0]
QuietExit(code) == [kind |-> "QuietExit", msg |-> "", code |-> code]
Running == [kind |-> "running", msg |-> "", code |-> 0]
\* The process dies without run() returning: a signal, or a panic.
Killed == [kind |-> "killed", msg |-> "", code |-> 0]
Panic(msg) == [kind |-> "panic", msg |-> msg, code |-> 0]

\* The exit code main gives the process for what run() returned: the code
\* carried by QuietExit, 1 for any other error.
ExitCode(r) ==
    CASE r.kind = "Ok" -> 0
      [] r.kind = "QuietExit" -> r.code
      [] OTHER -> 1

\* One printed item: what it is, its text, and the progress pair of a prompt.
Ev(ev, text, i, n) == [ev |-> ev, text |-> text, i |-> i, n |-> n]

NoFilter == [some |-> FALSE, set |-> {}]
NoTargetArgs == [manifest_path |-> NoPath, workspace_root |-> NoPath,
                 extensions |-> <<>>, all |-> FALSE, no_ignore |-> FALSE]

\* ---------------------------------------------------------- process_snapshots
\* Activation record: the arguments (cmd: ProcessCommand, op), who called,
\* and the locals of lines 324-339.  state: idle, running, ok, err.  key is
\* what read_key last returned to the query_snapshot call in progress ("" when
\* no call is in progress or nothing was read yet).
NoPs == [state |-> "idle", caller |-> "", target_args |-> NoTargetArgs,
         snapshot_filter |-> NoFilter, quiet |-> FALSE, op |-> "None",
         loc |-> LocErr, snapshot_containers |-> <<>>, snapshot_count |-> 0,
         ci |-> 0, ei |-> 0, num |-> 0, key |-> "",
         accepted |-> <<>>, rejected |-> <<>>, skipped |-> <<>>]

\* process_snapshots(ProcessCommand {target_args, snapshot_filter, quiet}, op)
CallProcessSnapshots(caller, target_args, snapshot_filter, quiet, op) ==
    [NoPs EXCEPT !.state = "running", !.caller = caller, !.target_args = target_args,
                 !.snapshot_filter = snapshot_filter, !.quiet = quiet, !.op = op]

FilterKey_NoLine(target_file, line) == target_file

\* The identity key of lines 347-351.
FilterKey(target_file, line) ==
    IF line # 0 THEN target_file \o ":" \o ToString(line) ELSE target_file

\* snapshot_ref.summary() (crate::cargo): the file, and the line of an
\* inline entry.
Summary(target_file, line) ==
    IF line = 0 THEN target_file ELSE target_file \o ":" \o ToString(line)

\* Lines 346-356: the entry is passed over because of the filter.
FilteredOut(snapshot_filter, key) ==
    snapshot_filter.some /\ key \notin snapshot_filter.set

Decide_SkipNotListed(p, op) ==
    LET c == p.snapshot_containers[p.ci]
        ref == c.refs[p.ei]
        item == Summary(c.target_file, ref.entry.line)
    IN  CASE op = "Accept" ->
               [p EXCEPT !.snapshot_containers[p.ci].refs[p.ei].op = "Accept",
                         !.accepted = Append(@, item)]
          [] op = "Reject" ->
               [p EXCEPT !.snapshot_containers[p.ci].refs[p.ei].op = "Reject",
                         !.rejected = Append(@, item)]
          [] OTHER -> p

\* Lines 373-385: record the decision on the current entry.
Decide(p, op) ==
    LET c == p.snapshot_containers[p.ci]
        ref == c.refs[p.ei]
        item == Summary(c.target_file, ref.entry.line)
    IN  CASE op = "Accept" ->
               [p EXCEPT !.snapshot_containers[p.ci].refs[p.ei].op = "Accept",
                         !.accepted = Append(@, item)]
          [] op = "Reject" ->
               [p EXCEPT !.snapshot_containers[p.ci].refs[p.ei].op = "Reject",
                         !.rejected = Append(@, item)]
          [] OTHER -> [p EXCEPT !.skipped = Append(@, item)]

\* End of the body of the inner loop: next entry, or the container's commit.
NextEntry(p) ==
    IF p.ei < Len(p.snapshot_containers[p.ci].refs)
    THEN ps' = [p EXCEPT !.ei = @ + 1] /\ pc' = "ps_entry"
    ELSE ps' = p /\ pc' = "ps_commit"

\* process_snapshots returns r to its caller: test_run goes on to spawn the
\* child after a successful pre-run pass (`?` at line 563), every other
\* return ends the command with r.
ReturnFromProcessSnapshots(p, r) ==
    /\ ps' = [p EXCEPT !.state = IF r.kind = "Ok" THEN "ok" ELSE "err"]
    /\ IF p.caller = "prerun" /\ r.kind = "Ok"
       THEN pc' = "spawn" /\ result' = result
       ELSE pc' = "done" /\ result' = r

\* SnapshotContainer::commit (crate::cargo): Accept promotes the candidate,
\* Reject discards it, an unset operation leaves the entry pending.
CommitPending(c, pend) ==
    pend \ {c.refs[i].entry : i \in {j \in 1..Len(c.refs) : c.refs[j].op # "Skip"}}
CommitAccepted(c, acc) ==
    [e \in Entries |->
        IF \E i \in 1..Len(c.refs) : c.refs[i].entry = e /\ c.refs[i].op = "Accept"
        THEN "new" ELSE acc[e]]

ProcessSnapshotsEnter_EmptyIsError ==
    /\ pc = "process_snapshots"
    /\ phases' = Append(phases, ps.caller)
    /\ UNCHANGED << opts, env, manifests, tree, pending, accepted, ref_file, cmd,
                    snapshot_ref_file, proc, child >>
    /\ LET loc == HandleTargetArgs(ps.target_args)
       IN  IF ~loc.ok
           THEN ReturnFromProcessSnapshots(ps, Err(TargetArgsError(ps.target_args))) /\ out' = out
           ELSE \E io_ok \in BOOLEAN :
                LET containers == LoadSnapshotContainers(loc)
                    count == SnapshotCount(containers)
                    p == [ps EXCEPT !.loc = loc, !.snapshot_containers = containers,
                                    !.snapshot_count = count]
                IN  IF ~io_ok
                    THEN ReturnFromProcessSnapshots(ps, Err("discovery")) /\ out' = out
                    ELSE IF count = 0
                    THEN /\ out' = out
                         /\ ReturnFromProcessSnapshots(p, Err("no snapshots"))
                    ELSE /\ ps' = [p EXCEPT !.ci = 1, !.ei = 1]
                         /\ pc' = "ps_entry"
                         /\ UNCHANGED << out, result >>

\* Lines 322-339: resolve, discover, count; nothing to do when the count is 0.
ProcessSnapshotsEnter ==
    /\ pc = "process_snapshots"
    /\ phases' = Append(phases, ps.caller)
    /\ UNCHANGED << opts, env, manifests, tree, pending, accepted, ref_file, cmd,
                    snapshot_ref_file, proc, child >>
    /\ LET loc == HandleTargetArgs(ps.target_args)
       IN  IF ~loc.ok
           THEN ReturnFromProcessSnapshots(ps, Err(TargetArgsError(ps.target_args))) /\ out' = out
           ELSE \E io_ok \in BOOLEAN :
                LET containers == LoadSnapshotContainers(loc)
                    count == SnapshotCount(containers)
                    p == [ps EXCEPT !.loc = loc, !.snapshot_containers = containers,
                                    !.snapshot_count = count]
                IN  IF ~io_ok
                    THEN ReturnFromProcessSnapshots(ps, Err("discovery")) /\ out' = out
                    ELSE IF count = 0
                    THEN /\ out' = IF ps.quiet THEN out
                                   ELSE Append(out, Ev("done", "no snapshots to review", 0, 0))
                         /\ ReturnFromProcessSnapshots(p, Ok)
                    ELSE /\ ps' = [p EXCEPT !.ci = 1, !.ei = 1]
                         /\ pc' = "ps_entry"
                         /\ UNCHANGED << out, result >>

ProcessEntry_CountsFiltered ==
    /\ pc = "ps_entry"
    /\ UNCHANGED << phases, opts, env, manifests, tree, pending, accepted, ref_file, cmd,
                    snapshot_ref_file, proc, child, result >>
    /\ LET c == ps.snapshot_containers[ps.ci]
           ref == c.refs[ps.ei]
           key == FilterKey(c.target_file, ref.entry.line)
           p == [ps EXCEPT !.key = ""]
           counted == [p EXCEPT !.num = @ + 1]
       IN  IF FilteredOut(ps.snapshot_filter, key)
           THEN /\ NextEntry([counted EXCEPT !.skipped = Append(@, Summary(c.target_file, ref.entry.line))])
                /\ out' = out
           ELSE IF ps.op # "None"
           THEN NextEntry(Decide(counted, ps.op)) /\ out' = out
           ELSE /\ ps' = counted
                /\ out' = Append(out, Ev("prompt", key, counted.num, counted.snapshot_count))
                /\ pc' = "query_snapshot"

\* Lines 344-372 for one entry: the filter, the counter, and either the
\* bulk operation or the prompt of query_snapshot (lines 171-202).
ProcessEntry ==
    /\ pc = "ps_entry"
    /\ UNCHANGED << phases, opts, env, manifests, tree, pending, accepted, ref_file, cmd,
                    snapshot_ref_file, proc, child, result >>
    /\ LET c == ps.snapshot_containers[ps.ci]
           ref == c.refs[ps.ei]
           key == FilterKey(c.target_file, ref.entry.line)
           p == [ps EXCEPT !.key = ""]
           counted == [p EXCEPT !.num = @ + 1]
       IN  IF FilteredOut(ps.snapshot_filter, key)
           THEN /\ NextEntry([p EXCEPT !.skipped = Append(@, Summary(c.target_file, ref.entry.line))])
                /\ out' = out
           ELSE IF ps.op # "None"
           THEN NextEntry(Decide(counted, ps.op)) /\ out' = out
           ELSE /\ ps' = counted
                /\ out' = Append(out, Ev("prompt", key, counted.num, counted.snapshot_count))
                /\ pc' = "query_snapshot"

\* Keys the terminal can deliver; ReadError is term.read_key() failing.
Keys == {"a", "Enter", "r", "Escape", "s", " ", "x"}
ReadError == "<error>"

KeyOperation_AnyOtherKeySkips(key) ==
    CASE key \in {"a", "Enter"} -> "Accept"
      [] key \in {"r", "Escape"} -> "Reject"
      [] OTHER -> "Skip"

\* The match of lines 205-210; "None" is the arm that keeps looping.
KeyOperation(key) ==
    CASE key \in {"a", "Enter"} -> "Accept"
      [] key \in {"r", "Escape"} -> "Reject"
      [] key \in {"s", " "} -> "Skip"
      [] OTHER -> "None"

QueryKey_BreakOnError ==
    /\ pc = "query_snapshot"
    /\ UNCHANGED << phases, opts, env, manifests, tree, ref_file, cmd,
                    snapshot_ref_file, proc, child, out >>
    /\ \E key \in Keys \cup {ReadError} :
         LET p == [ps EXCEPT !.key = key]
         IN  IF key = ReadError
             THEN /\ ReturnFromProcessSnapshots(p, Err("read_key"))
                  /\ pending' = CommitPending(ps.snapshot_containers[ps.ci], pending)
                  /\ accepted' = CommitAccepted(ps.snapshot_containers[ps.ci], accepted)
             ELSE IF KeyOperation(key) = "None"
             THEN ps' = p /\ UNCHANGED << pc, result, pending, accepted >>
             ELSE /\ NextEntry(Decide(p, KeyOperation(key)))
                  /\ UNCHANGED << result, pending, accepted >>

\* Lines 204-211: one key read while the prompt is up.
QueryKey ==
    /\ pc = "query_snapshot"
    /\ UNCHANGED << phases, opts, env, manifests, tree, pending, accepted, ref_file, cmd,
                    snapshot_ref_file, proc, child, out >>
    /\ \E key \in Keys \cup {ReadError} :
         LET p == [ps EXCEPT !.key = key]
         IN  IF key = ReadError
             THEN ReturnFromProcessSnapshots(p, Err("read_key"))
             ELSE IF KeyOperation(key) = "None"
             THEN ps' = p /\ UNCHANGED << pc, result >>
             ELSE NextEntry(Decide(p, KeyOperation(key))) /\ result' = result

\* The process is interrupted while it blocks in read_key.
Interrupt ==
    /\ pc = "query_snapshot"
    /\ pc' = "done"
    /\ result' = Killed
    /\ UNCHANGED << phases, opts, env, manifests, tree, pending, accepted, ref_file, cmd,
                    snapshot_ref_file, proc, child, ps, out >>

\* Lines 390-414: the summary, unless quiet.
SummaryOutput(p) ==
    IF p.quiet THEN out
    ELSE Append(out, Ev("insta review finished", "",
                        Len(p.accepted) + Len(p.rejected), Len(p.skipped)))

\* Line 387 for the current container, then the next container or the end
\* of the pass (lines 390-416).
CommitContainer ==
    /\ pc = "ps_commit"
    /\ UNCHANGED << phases, opts, env, manifests, tree, ref_file, cmd, snapshot_ref_file,
                    proc, child >>
    /\ \E commit_ok \in BOOLEAN :
         LET p == [ps EXCEPT !.key = ""]
         IN  IF ~commit_ok
             THEN /\ ReturnFromProcessSnapshots(p, Err("commit"))
                  /\ UNCHANGED << pending, accepted, out >>
             ELSE /\ pending' = CommitPending(ps.snapshot_containers[ps.ci], pending)
                  /\ accepted' = CommitAccepted(ps.snapshot_containers[ps.ci], accepted)
                  /\ IF ps.ci < Len(ps.snapshot_containers)
                     THEN /\ ps' = [p EXCEPT !.ci = @ + 1, !.ei = 1]
                          /\ pc' = "ps_entry"
                          /\ UNCHANGED << out, result >>
                     ELSE /\ out' = SummaryOutput(ps)
                          /\ ReturnFromProcessSnapshots(p, Ok)

\* ------------------------------------------------------------------ test_run
Reconcile_AlwaysIgnoresUnseen(update, c) ==
    CASE update \in {<<"auto">>, <<"new">>, Unset, <<"">>, <<"no">>} -> [ok |-> TRUE, cmd |-> c]
      [] update = <<"always">> ->
           [ok |-> TRUE,
            cmd |-> IF ~c.accept /\ ~c.review THEN [c EXCEPT !.accept = TRUE] ELSE c]
      [] update = <<"unseen">> ->
           [ok |-> TRUE,
            cmd |-> IF ~c.accept
                    THEN [c EXCEPT !.accept_unseen = TRUE, !.review = TRUE] ELSE c]
      [] OTHER -> [ok |-> FALSE, cmd |-> c]

Reconcile_AlwaysAcceptsDespiteReview(update, c) ==
    CASE update \in {<<"auto">>, <<"new">>, Unset, <<"">>, <<"no">>} -> [ok |-> TRUE, cmd |-> c]
      [] update = <<"always">> ->
           [ok |-> TRUE,
            cmd |-> IF ~c.accept /\ ~c.accept_unseen THEN [c EXCEPT !.accept = TRUE] ELSE c]
      [] update = <<"unseen">> ->
           [ok |-> TRUE,
            cmd |-> IF ~c.accept
                    THEN [c EXCEPT !.accept_unseen = TRUE, !.review = TRUE,
                                   !.accept = FALSE]
                    ELSE c]
      [] OTHER -> [ok |-> FALSE, cmd |-> c]

Reconcile_AlwaysForcesReview(update, c) ==
    CASE update \in {<<"auto">>, <<"new">>, Unset, <<"">>, <<"no">>} -> [ok |-> TRUE, cmd |-> c]
      [] update = <<"always">> ->
           [ok |-> TRUE,
            cmd |-> IF ~c.accept /\ ~c.accept_unseen /\ ~c.review
                    THEN [c EXCEPT !.review = TRUE] ELSE c]
      [] update = <<"unseen">> ->
           [ok |-> TRUE,
            cmd |-> IF ~c.accept
                    THEN [c EXCEPT !.accept_unseen = TRUE, !.review = TRUE] ELSE c]
      [] OTHER -> [ok |-> FALSE, cmd |-> c]

\* Lines 487-507: the INSTA_UPDATE override of the flags.  ok = FALSE is the
\* "invalid value for INSTA_UPDATE" error.
Reconcile(update, c) ==
    CASE update \in {<<"auto">>, <<"new">>} -> [ok |-> TRUE, cmd |-> c]
      [] update = <<"always">> ->
           [ok |-> TRUE,
            cmd |-> IF ~c.accept /\ ~c.accept_unseen /\ ~c.review
                    THEN [c EXCEPT !.review = FALSE, !.accept = TRUE]
                    ELSE c]
      [] update = <<"unseen">> ->
           [ok |-> TRUE,
            cmd |-> IF ~c.accept
                    THEN [c EXCEPT !.accept_unseen = TRUE, !.review = TRUE,
                                   !.accept = FALSE]
                    ELSE c]
      [] update \in {Unset, <<"">>, <<"no">>} -> [ok |-> TRUE, cmd |-> c]
      [] OTHER -> [ok |-> FALSE, cmd |-> c]

ChildUpdateMode_KeepsParentValue(c) ==
    IF c.accept_unseen THEN "unseen" ELSE IF env = Unset THEN "new" ELSE env[1]

\* Lines 526-529: the update mode handed to the child.
ChildUpdateMode(c) == IF c.accept_unseen THEN "unseen" ELSE "new"

Flag(b, args) == IF b THEN args ELSE <<>>

\* Lines 470-471 and 509-553: the argument list of the child, in order.
ProcArgs(c, color) ==
    <<"test">>
    \o Flag(c.target_args.all, <<"--all">>)
    \o Flag(c.package # <<>>, <<"--package">> \o c.package)
    \o Flag(c.target_args.manifest_path # NoPath,
            <<"--manifest-path", PathStr(c.target_args.manifest_path)>>)
    \o Flag(~c.fail_fast, <<"--no-fail-fast">>)
    \o Flag(c.release, <<"--release">>)
    \o Flag(c.jobs # <<>>, <<"--jobs=" \o ToString(IF c.jobs = <<>> THEN 0 ELSE c.jobs[1])>>)
    \o Flag(c.features # <<>>, <<"--features">> \o c.features)
    \o Flag(c.all_features, <<"--all-features">>)
    \o Flag(c.no_default_features, <<"--no-default-features">>)
    \o <<"--color", color>>
    \o c.cargo_options
    \o <<"--", "-q">>

\* Lines 477 and 523-532: the environment set for the child; <<>> is "not
\* set by test_run".
ProcEnv(c, ref_file_path) ==
    [INSTA_SNAPSHOT_REFERENCES_FILE |-> ref_file_path,
     INSTA_FORCE_PASS |-> Flag(~c.no_force_pass, <<"1">>),
     INSTA_UPDATE |-> <<ChildUpdateMode(c)>>,
     INSTA_FORCE_UPDATE_SNAPSHOTS |-> Flag(c.force_update_snapshots, <<"1">>)]

NoProc == [built |-> FALSE, args |-> <<>>,
           env |-> [INSTA_SNAPSHOT_REFERENCES_FILE |-> <<>>, INSTA_FORCE_PASS |-> <<>>,
                    INSTA_UPDATE |-> <<>>, INSTA_FORCE_UPDATE_SNAPSHOTS |-> <<>>]]

\* env::temp_dir().join(Uuid::new_v4().to_string())
TempRefPath == <<"/tmp", "uuid">>

\* --color, defaulted at line 703.
ColorOf(o) == IF o.color = <<>> THEN "auto" ELSE o.color[1]

PreRunCall_EmptyFilter(c) ==
    IF ~c.keep_pending
    THEN CallProcessSnapshots("prerun", c.target_args, [some |-> TRUE, set |-> {}],
                              TRUE, "Reject")
    ELSE NoPs

\* Lines 555-564: the pre-run pass, or none with --keep-pending.
PreRunCall(c) ==
    IF ~c.keep_pending
    THEN CallProcessSnapshots("prerun", c.target_args, NoFilter, TRUE, "Reject")
    ELSE NoPs

\* Lines 470-564 up to the call of the pre-run pass.
TestRunSetup ==
    /\ pc = "test_run"
    /\ UNCHANGED << phases, opts, env, manifests, tree, pending, accepted, ref_file, child, out >>
    /\ snapshot_ref_file' = cmd.delete_unreferenced_snapshots
    /\ LET r == Reconcile(env, cmd)
       IN  IF ~r.ok
           THEN /\ result' = Err("invalid value for INSTA_UPDATE")
                /\ pc' = "done"
                /\ UNCHANGED << cmd, proc, ps >>
           ELSE /\ cmd' = r.cmd
                /\ proc' = [built |-> TRUE,
                            args |-> ProcArgs(r.cmd, ColorOf(opts)),
                            env |-> ProcEnv(r.cmd,
                                            Flag(cmd.delete_unreferenced_snapshots,
                                                 <<PathStr(TempRefPath)>>))]
                /\ ps' = PreRunCall(r.cmd)
                /\ pc' = IF PreRunCall(r.cmd).state = "running"
                         THEN "process_snapshots" ELSE "spawn"
                /\ result' = result

\* Line 566, first half: the child is spawned (or cannot be).
Spawn ==
    /\ pc = "spawn"
    /\ UNCHANGED << opts, env, manifests, tree, pending, accepted, ref_file, cmd,
                    snapshot_ref_file, proc, ps, out >>
    /\ \E spawn_ok \in BOOLEAN :
         IF spawn_ok
         THEN /\ child' = [child EXCEPT !.state = "running"]
              /\ pc' = "wait"
              /\ phases' = Append(phases, "spawn")
              /\ result' = result
         ELSE /\ result' = Err("spawn")
              /\ pc' = "done"
              /\ UNCHANGED << child, phases >>

\* ------------------------------------------- the child test process (insta)
\* What one burst of the child's tests does: the reference lines it appends
\* and the entries whose output it finds new or changed.
ChildBehaviours ==
    { [refs |-> { <<"/ws", "snapshots", "a.snap">> },
       news |-> { e \in Entries : e.file = "a.snap" }],
      [refs |-> { <<".", "snapshots", "b.snap">>, <<"/ws", "snapshots", "gone.snap">> },
       news |-> { e \in Entries : e.file = "b.rs" }],
      [refs |-> { FilePath(f) : f \in AllFiles },
       news |-> Entries] }

\* The child runs tests: with INSTA_UPDATE=unseen a snapshot that has no
\* accepted artifact is written as accepted, otherwise a candidate is left
\* pending; referenced artifacts are appended to the reference file when
\* INSTA_SNAPSHOT_REFERENCES_FILE is set.
ChildWrites ==
    /\ child.state = "running"
    /\ child.steps < MaxChildSteps
    /\ UNCHANGED << phases, opts, env, manifests, tree, pc, cmd, snapshot_ref_file, proc, ps,
                    out, result >>
    /\ \E b \in ChildBehaviours :
         LET direct == IF proc.env.INSTA_UPDATE = <<"unseen">>
                       THEN {e \in b.news : accepted[e] = "none"} ELSE {}
         IN  /\ pending' = pending \cup (b.news \ direct)
             /\ accepted' = [e \in Entries |-> IF e \in direct THEN "new" ELSE accepted[e]]
             /\ ref_file' = IF proc.env.INSTA_SNAPSHOT_REFERENCES_FILE # <<>>
                            THEN [exists |-> TRUE, lines |-> ref_file.lines \cup b.refs]
                            ELSE ref_file
             /\ child' = [child EXCEPT !.steps = @ + 1]

ExitCodes == {0, 1, 3}

ChildExit ==
    /\ child.state = "running"
    /\ phases' = Append(phases, "child_exit")
    /\ \E code \in ExitCodes : child' = [child EXCEPT !.state = "exited", !.status = code]
    /\ UNCHANGED << opts, env, manifests, tree, pending, accepted, ref_file, pc, cmd,
                    snapshot_ref_file, proc, ps, out, result >>

FailureWarning_OnlyReview(c) ==
    IF c.review
    THEN << Ev("warning", "non snapshot tests failed, skipping review", 0, 0) >>
    ELSE <<>>

\* Lines 569-579: the warning printed when the child failed.
FailureWarning(c) ==
    IF c.review
    THEN << Ev("warning", "non snapshot tests failed, skipping review", 0, 0) >>
    ELSE IF c.accept
    THEN << Ev("warning", "non snapshot tests failed, not accepted changes", 0, 0) >>
    ELSE <<>>

\* Line 580: what test_run returns when the child failed.
FailureResult(status) == QuietExit(1)

StatusSuccess_Always(status) == TRUE

\* Line 568: status.success()
StatusSuccess(status) == status = 0

\* Line 566, second half, and lines 568-581: the wait returns.
TestRunAfterWait ==
    /\ pc = "wait"
    /\ child.state = "exited"
    /\ UNCHANGED << phases, opts, env, manifests, tree, pending, accepted, ref_file, cmd,
                    snapshot_ref_file, proc, child, ps >>
    /\ IF ~StatusSuccess(child.status)
       THEN /\ out' = out \o FailureWarning(cmd)
            /\ result' = FailureResult(child.status)
            /\ pc' = "done"
       ELSE /\ pc' = IF snapshot_ref_file THEN "collect" ELSE "post_run"
            /\ UNCHANGED << out, result >>

\* ------------------------------------------ unreferenced-artifact collection
\* Whether a file or directory with this canonical path exists.
Exists(path) == \E f \in tree : IsPrefix(path, FilePath(f))

\* Lines 585-590: the referenced set; a line that cannot be canonicalized
\* (no such file) is dropped.
ReferencedFiles(lines) ==
    { Canonicalize(l) : l \in {x \in lines : Exists(Canonicalize(x))} }

\* Lines 420-430: the roots of make_deletion_walker.
DeletionRoots(loc) ==
    IF loc.packages.some
    THEN { Canonicalize(PackageDir(pkg)) : pkg \in loc.packages.set }
    ELSE { loc.workspace_root }

\* The path a walk started at `root` reports for the canonical path `path`.
EntryPath(root, path) ==
    root \o SubSeq(path, Len(Canonicalize(root)) + 1, Len(path))

\* Lines 433-465: the filter_entry closure applied to a directory; FALSE
\* prunes the directory.
FilterEntry(roots, dir_path) ==
    LET canonicalized == Canonicalize(dir_path)
    IN  IF Last(dir_path) = "target" /\ Parent(canonicalized) \in roots
        THEN FALSE
        ELSE IF canonicalized \notin roots /\ HasManifest(canonicalized)
        THEN FALSE
        ELSE TRUE

\* ignore::Walk from loc.workspace_root: every file below the root none of
\* whose ancestor directories below the root is pruned (the filter is not
\* applied to the root of the walk itself).  The tree has no ignore files.
Walked(loc) ==
    { f \in tree :
        /\ IsPrefix(Canonicalize(loc.workspace_root), f.dir)
        /\ LET dir_path == EntryPath(loc.workspace_root, f.dir)
           IN  \A k \in (Len(loc.workspace_root) + 1)..Len(dir_path) :
                   FilterEntry(DeletionRoots(loc), SubSeq(dir_path, 1, k)) }

\* Lines 599-605: the file name test of the deletion loop.
IsSnapshotFile(loc, f) == EndsWithExt(f, "snap")

\* Lines 594-617: the files the loop reports and removes.
Unreferenced(loc, files) ==
    { f \in Walked(loc) : IsSnapshotFile(loc, f) /\ FilePath(f) \notin files }

RECURSIVE SetToSeq(_)
SetToSeq(S) ==
    IF S = {} THEN <<>>
    ELSE LET x == CHOOSE y \in S : TRUE IN << x >> \o SetToSeq(S \ {x})

\* Lines 609-613 and 618-620: what the collection prints.
DeletionReport(loc, doomed) ==
    IF doomed = {}
    THEN << Ev("info", "no unreferenced snapshots found", 0, 0) >>
    ELSE LET fs == SetToSeq(doomed)
         IN  << Ev("info", "deleted unreferenced snapshots:", 0, 0) >>
             \o [i \in 1..Len(fs) |->
                    Ev("deleted", PathStr(EntryPath(loc.workspace_root, FilePath(fs[i]))), 0, 0)]

\* Lines 584-624: read the reference file back, walk and delete, remove the
\* temporary file.  read_to_string(path).unwrap() panics when the child never
\* created the file.
DeleteUnreferenced ==
    /\ pc = "collect"
    /\ phases' = Append(phases, "collect")
    /\ UNCHANGED << opts, env, manifests, pending, accepted, cmd, snapshot_ref_file,
                    proc, child, ps >>
    /\ IF ~ref_file.exists
       THEN /\ result' = Panic("read_to_string")
            /\ pc' = "done"
            /\ UNCHANGED << tree, ref_file, out >>
       ELSE LET files == ReferencedFiles(ref_file.lines)
                loc == HandleTargetArgs(cmd.target_args)
                doomed == IF loc.ok THEN Unreferenced(loc, files) ELSE {}
            IN  /\ \E failed \in SUBSET doomed :
                     /\ Cardinality(failed) <= MaxRemoveFailures
                     /\ tree' = tree \ (doomed \ failed)
                /\ out' = IF loc.ok THEN out \o DeletionReport(loc, doomed) ELSE out
                /\ ref_file' = [exists |-> FALSE, lines |-> {}]
                /\ pc' = "post_run"
                /\ result' = result

WantsPostRunPass_Always(c) == TRUE

\* Line 626: whether a post-run pass follows.
WantsPostRunPass(c) == c.review \/ c.accept

\* Lines 626-638: the post-run pass when review or accept is set.
PostRunCall(c) ==
    CallProcessSnapshots("postrun", c.target_args, NoFilter, FALSE,
                         IF c.accept THEN "Accept" ELSE "None")

\* Lines 643-653: the pending report.
PendingReport(snapshot_count) ==
    IF snapshot_count > 0
    THEN << Ev("info", "snapshots to review", snapshot_count, 0),
            Ev("hint", "use cargo insta review to review snapshots", 0, 0) >>
    ELSE << Ev("info", "no snapshots to review", 0, 0) >>

\* Lines 626-656: the post-run decision pass, or the pending report.
PostRun ==
    /\ pc = "post_run"
    /\ phases' = IF WantsPostRunPass(cmd) THEN phases ELSE Append(phases, "report")
    /\ UNCHANGED << opts, env, manifests, tree, pending, accepted, ref_file, cmd,
                    snapshot_ref_file, proc, child >>
    /\ IF WantsPostRunPass(cmd)
       THEN /\ ps' = PostRunCall(cmd)
            /\ pc' = "process_snapshots"
            /\ UNCHANGED << out, result >>
       ELSE LET loc == HandleTargetArgs(cmd.target_args)
            IN  /\ pc' = "done"
                /\ ps' = ps
                /\ IF ~loc.ok
                   THEN result' = Err(TargetArgsError(cmd.target_args)) /\ out' = out
                   ELSE \E io_ok \in BOOLEAN :
                          IF ~io_ok
                          THEN result' = Err("discovery") /\ out' = out
                          ELSE /\ out' = out \o PendingReport(
                                              SnapshotCount(LoadSnapshotContainers(loc)))
                               /\ result' = Ok

\* -------------------------------------------------------- pending_snapshots_cmd
RECURSIVE Flatten(_, _)
Flatten(seqs, i) == IF i > Len(seqs) THEN <<>> ELSE seqs[i] \o Flatten(seqs, i + 1)

\* Lines 663-689: one line (or JSON object) per pending entry.
PendingLines(containers, as_json) ==
    Flatten([ci \in 1..Len(containers) |->
               [ei \in 1..Len(containers[ci].refs) |->
                  Ev(IF ~as_json THEN "line"
                     ELSE IF containers[ci].inline THEN "inline_snapshot"
                     ELSE "named_snapshot",
                     IF as_json THEN containers[ci].target_file
                     ELSE FilterKey(containers[ci].target_file,
                                    containers[ci].refs[ei].entry.line),
                     containers[ci].refs[ei].entry.line, 0)]], 1)

PendingSnapshotsCmd ==
    /\ pc = "pending_snapshots_cmd"
    /\ phases' = Append(phases, "pending_report")
    /\ UNCHANGED << opts, env, manifests, tree, pending, accepted, ref_file, cmd,
                    snapshot_ref_file, proc, child, ps >>
    /\ pc' = "done"
    /\ LET loc == HandleTargetArgs(opts.target_args)
       IN  IF ~loc.ok
           THEN result' = Err(TargetArgsError(opts.target_args)) /\ out' = out
           ELSE \E io_ok \in BOOLEAN :
                  IF ~io_ok
                  THEN result' = Err("discovery") /\ out' = out
                  ELSE /\ out' = out \o PendingLines(LoadSnapshotContainers(loc),
                                                      opts.as_json)
                       /\ result' = Ok

\* ------------------------------------------------------------------------ run
ValidColor_AcceptsAnything(color) == TRUE

\* Lines 214-222: handle_color accepts exactly these values.
ValidColor(color) == color \in {"always", "auto", "never"}

\* Lines 705-711: the first step of the chosen command.
Dispatch(o) ==
    CASE o.command \in {"review", "accept", "reject"} -> "process_snapshots"
      [] o.command = "test" -> "test_run"
      [] OTHER -> "pending_snapshots_cmd"

\* The `op` argument of lines 706-708.
CommandOp(command) ==
    CASE command = "accept" -> "Accept"
      [] command = "reject" -> "Reject"
      [] OTHER -> "None"

\* Lines 694-711.
Run ==
    /\ pc = "run"
    /\ UNCHANGED << phases, opts, env, manifests, tree, pending, accepted, ref_file, cmd,
                    snapshot_ref_file, proc, child, out >>
    /\ IF ~ValidColor(ColorOf(opts))
       THEN /\ result' = Err("invalid value for --color")
            /\ pc' = "done"
            /\ ps' = ps
       ELSE /\ pc' = Dispatch(opts)
            /\ ps' = IF Dispatch(opts) = "process_snapshots"
                     THEN CallProcessSnapshots("cmd", opts.target_args,
                                               opts.snapshot_filter, opts.quiet,
                                               CommandOp(opts.command))
                     ELSE ps
            /\ result' = result

\* ------------------------------------------------------------ initial states
\* TestCommand with every flag off.
DefaultTest ==
    [target_args |-> NoTargetArgs, package |-> <<>>, no_force_pass |-> FALSE,
     fail_fast |-> FALSE, features |-> <<>>, jobs |-> <<>>, release |-> FALSE,
     all_features |-> FALSE, no_default_features |-> FALSE, review |-> FALSE,
     accept |-> FALSE, accept_unseen |-> FALSE, keep_pending |-> FALSE,
     force_update_snapshots |-> FALSE, delete_unreferenced_snapshots |-> FALSE,
     cargo_options |-> <<>>]

DefaultOpts ==
    [color |-> <<>>, command |-> "test", target_args |-> NoTargetArgs,
     snapshot_filter |-> NoFilter, quiet |-> FALSE, as_json |-> FALSE,
     test |-> DefaultTest]

EnvValues ==
    { Unset, <<"">>, <<"auto">>, <<"new">>, <<"no">>, <<"always">>, <<"unseen">>,
      <<"bogus">> }

Colors == { <<>>, <<"never">>, <<"purple">> }

\* --review and --accept conflict (line 129), so at most one is given.
ReviewAccept ==
    { [review |-> FALSE, accept |-> FALSE], [review |-> TRUE, accept |-> FALSE],
      [review |-> FALSE, accept |-> TRUE] }

\* The flags that only shape the child's command line and environment.
TestExtras ==
    { [no_force_pass |-> FALSE, fail_fast |-> FALSE, force_update_snapshots |-> FALSE,
       package |-> <<>>, release |-> FALSE, jobs |-> <<>>, features |-> <<>>,
       all_features |-> FALSE, no_default_features |-> FALSE, cargo_options |-> <<>>],
      [no_force_pass |-> TRUE, fail_fast |-> TRUE, force_update_snapshots |-> TRUE,
       package |-> <<"pkg">>, release |-> TRUE, jobs |-> <<2>>, features |-> <<"f">>,
       all_features |-> TRUE, no_default_features |-> TRUE,
       cargo_options |-> <<"--lib">>] }

WithExtras(c, x) ==
    [c EXCEPT !.no_force_pass = x.no_force_pass, !.fail_fast = x.fail_fast,
              !.force_update_snapshots = x.force_update_snapshots,
              !.package = x.package, !.release = x.release, !.jobs = x.jobs,
              !.features = x.features, !.all_features = x.all_features,
              !.no_default_features = x.no_default_features,
              !.cargo_options = x.cargo_options]

TargetArgsDomain ==
    { [manifest_path |-> m, workspace_root |-> w, extensions |-> x, all |-> a,
       no_ignore |-> FALSE] :
        m \in {NoPath, SubManifest}, w \in {NoPath, RelRoot, Cwd},
        x \in {<<>>, <<"txt">>}, a \in BOOLEAN }

\* A workspace member implies a manifest at the workspace root.
ManifestsDomain ==
    { m \in [root : BOOLEAN, sub : {"plain", "member", "foreign"}] :
        m.sub = "member" => m.root }

Trees == { AllFiles, {f \in AllFiles : f.dir = <<"/ws", "snapshots">> /\ f.ext = "snap"} }

PendingSets == { {}, {e \in Entries : e.line <= 1}, Entries }

Filters ==
    { NoFilter, [some |-> TRUE, set |-> {}], [some |-> TRUE, set |-> {"a.snap", "b.rs:2"}],
      [some |-> TRUE, set |-> {"b.rs", "b.rs:1"}] }

\* The artifact of record before the run: the external snapshot of the sub
\* crate is new, every other entry has an older accepted artifact.
InitAccepted == [e \in Entries |-> IF e.dir = SubDir THEN "none" ELSE "old"]

\* test: every INSTA_UPDATE value against every flag combination, in the
\* ambient workspace.
InitPolicy ==
    /\ env \in EnvValues
    /\ \E ra \in ReviewAccept, au, kp, du \in BOOLEAN, x \in TestExtras :
         opts = [DefaultOpts EXCEPT
                   !.test = WithExtras([DefaultTest EXCEPT
                                          !.review = ra.review, !.accept = ra.accept,
                                          !.accept_unseen = au, !.keep_pending = kp,
                                          !.delete_unreferenced_snapshots = du], x)]
    /\ manifests = [root |-> TRUE, sub |-> "member"]
    /\ tree = AllFiles
    /\ pending = {e \in Entries : e.line <= 1}

\* test: every way of naming the location against every layout of the tree.
InitLocation ==
    /\ env = Unset
    /\ \E ta \in TargetArgsDomain, kp, ac \in BOOLEAN :
         opts = [DefaultOpts EXCEPT
                   !.test = [DefaultTest EXCEPT
                               !.target_args = ta, !.keep_pending = kp, !.accept = ac,
                               !.delete_unreferenced_snapshots = TRUE]]
    /\ manifests \in ManifestsDomain
    /\ tree \in Trees
    /\ pending \in {{}, Entries}

\* test: the flags that shape the child's environment, each on its own, and
\* the --color values.
InitInvocation ==
    /\ env \in {Unset, <<"unseen">>, <<"always">>}
    /\ \E nfp, ff, fu, du \in BOOLEAN, c \in Colors :
         opts = [DefaultOpts EXCEPT
                   !.color = c,
                   !.test = [DefaultTest EXCEPT
                               !.no_force_pass = nfp, !.fail_fast = ff,
                               !.force_update_snapshots = fu,
                               !.delete_unreferenced_snapshots = du,
                               !.keep_pending = TRUE]]
    /\ manifests = [root |-> TRUE, sub |-> "member"]
    /\ tree = AllFiles
    /\ pending = {}

\* review, accept, reject.
InitTriage ==
    /\ env = Unset
    /\ \E c \in {"review", "accept", "reject"}, f \in Filters, q \in BOOLEAN,
          ta \in {t \in TargetArgsDomain : t.manifest_path = NoPath /\ t.workspace_root # Cwd} :
         opts = [DefaultOpts EXCEPT !.command = c, !.snapshot_filter = f, !.quiet = q,
                                    !.target_args = ta]
    /\ manifests \in {m \in ManifestsDomain : m.sub # "foreign"}
    /\ tree = AllFiles
    /\ pending \in PendingSets

\* pending-snapshots, and the --color values.
InitPendingCmd ==
    /\ env = Unset
    /\ \E c \in Colors, j \in BOOLEAN, ta \in TargetArgsDomain :
         opts = [DefaultOpts EXCEPT !.command = "pending-snapshots", !.color = c,
                                    !.as_json = j, !.target_args = ta]
    /\ manifests \in ManifestsDomain
    /\ tree = AllFiles
    /\ pending \in PendingSets

Init ==
    /\ \/ InitPolicy
       \/ InitInvocation
       \/ InitLocation
       \/ InitTriage
       \/ InitPendingCmd
    /\ accepted = InitAccepted
    /\ ref_file = [exists |-> FALSE, lines |-> {}]
    /\ pc = "run"
    /\ cmd = opts.test
    /\ snapshot_ref_file = FALSE
    /\ proc = NoProc
    /\ child = [state |-> "none", steps |-> 0, status |-> 0]
    /\ ps = NoPs
    /\ out = <<>>
    /\ phases = <<>>
    /\ result = Running

Next ==
    \/ Run
    \/ ProcessSnapshotsEnter
    \/ ProcessEntry
    \/ QueryKey
    \/ Interrupt
    \/ CommitContainer
    \/ TestRunSetup
    \/ Spawn
    \/ ChildWrites
    \/ ChildExit
    \/ TestRunAfterWait
    \/ DeleteUnreferenced
    \/ PostRun
    \/ PendingSnapshotsCmd

Spec == Init /\ [][Next]_vars

\* ================================================================== claims
InPhases(x) == \E i \in 1..Len(phases) : phases[i] = x
Printed(ev) == \E i \in 1..Len(out) : out[i].ev = ev
IsTest == opts.command = "test"
ChildFailed == child.state = "exited" /\ child.status # 0
\* test_run is past lines 470-553.
SetupDone == IsTest /\ ValidColor(ColorOf(opts)) /\ pc \notin {"run", "test_run"}

\* C1: when the child test process exits non-zero, test_run runs neither the
\* collector nor a post-run pass nor the pending report; it prints a warning
\* exactly when review or accept is set after reconciliation, and it ends
\* with the quiet exit.
C1_FailedChildSkipsPostRun ==
    ChildFailed =>
        /\ pc \in {"wait", "done"}
        /\ ~InPhases("collect") /\ ~InPhases("postrun") /\ ~InPhases("report")
        /\ pc = "wait" => ~Printed("warning") /\ result = Running
        /\ pc = "done" =>
              /\ result.kind = "QuietExit"
              /\ Printed("warning") <=> (cmd.review \/ cmd.accept)

\* Scenario D: the child exits with 3 while --review was given.
C1_Witness ==
    /\ ChildFailed /\ child.status = 3 /\ pc = "done"
    /\ opts.test.review /\ Printed("warning")

\* C2: for every non-zero exit code c of the child, the exit code of the
\* test command is c.
C2_ExitCodeIsChildCode ==
    (ChildFailed /\ pc = "done") => ExitCode(result) = child.status

\* C3: reconciliation maps every INSTA_UPDATE value and flag combination to
\* exactly one outcome: no change for auto/new/unset/empty/no; accept set for
\* `always` exactly when none of accept, accept_unseen, review was given;
\* accept_unseen and review set and accept cleared for `unseen` exactly when
\* accept was not given; a fatal error for every other value.
C3_PolicyReconciliation ==
    SetupDone =>
        LET f == opts.test
            same == cmd = f
            valid == result # Err("invalid value for INSTA_UPDATE")
        IN  CASE env \in {<<"auto">>, <<"new">>, Unset, <<"">>, <<"no">>} ->
                   valid /\ same
              [] env = <<"always">> ->
                   /\ valid
                   /\ IF ~f.accept /\ ~f.accept_unseen /\ ~f.review
                      THEN cmd = [f EXCEPT !.accept = TRUE]
                      ELSE same
              [] env = <<"unseen">> ->
                   /\ valid
                   /\ IF ~f.accept
                      THEN cmd = [f EXCEPT !.accept_unseen = TRUE, !.review = TRUE]
                      ELSE same
              [] OTHER ->
                   ~valid /\ pc = "done" /\ same /\ ~proc.built /\ phases = <<>>

C3_Witness ==
    /\ SetupDone /\ env = <<"unseen">> /\ ~opts.test.review /\ ~opts.test.accept_unseen
    /\ cmd.review /\ cmd.accept_unseen /\ result = Ok

\* C4: a test run with INSTA_UPDATE=always and none of accept, review,
\* accept-unseen proceeds as the run with INSTA_UPDATE unset and --accept:
\* same flags after reconciliation, same child arguments and environment,
\* same pre-run cleanup, a bulk-Accept post-run pass, never the report.
C4_AlwaysIsAccept ==
    ( /\ SetupDone /\ env = <<"always">>
      /\ ~opts.test.accept /\ ~opts.test.review /\ ~opts.test.accept_unseen ) =>
        LET b == Reconcile(Unset, [opts.test EXCEPT !.accept = TRUE])
        IN  /\ b.ok /\ cmd = b.cmd
            /\ proc.built
            /\ proc.args = ProcArgs(b.cmd, ColorOf(opts))
            /\ proc.env.INSTA_UPDATE = <<"new">>
            /\ proc.env = ProcEnv(b.cmd, Flag(b.cmd.delete_unreferenced_snapshots,
                                               <<PathStr(TempRefPath)>>))
            /\ (ps.caller = "prerun" \/ InPhases("prerun")) <=> ~b.cmd.keep_pending
            /\ ~InPhases("report")
            /\ ps.caller = "postrun" =>
                  ps.op = "Accept" /\ ~ps.quiet /\ ~ps.snapshot_filter.some
            /\ (pc = "done" /\ result = Ok) => ps.caller = "postrun"

C4_Witness ==
    /\ IsTest /\ env = <<"always">>
    /\ ~opts.test.accept /\ ~opts.test.review /\ ~opts.test.accept_unseen
    /\ pc = "done" /\ result = Ok /\ ps.caller = "postrun" /\ Len(ps.accepted) > 0

\* C5: unless --keep-pending is given, the child is spawned only after an
\* unfiltered, quiet bulk-Reject pass over the same target arguments has
\* completed, and then no pending entry in scope remains; with --keep-pending
\* no step before the spawn changes a pending entry.
C5_AtSpawn ==
    pc = "spawn" =>
        IF cmd.keep_pending
        THEN ps = NoPs /\ ~InPhases("prerun")
        ELSE /\ ps.caller = "prerun" /\ ps.state = "ok"
             /\ ps.op = "Reject" /\ ps.quiet /\ ~ps.snapshot_filter.some
             /\ ps.target_args = cmd.target_args
             /\ HandleTargetArgs(cmd.target_args).ok
             /\ \A e \in pending : ~InScope(HandleTargetArgs(cmd.target_args), e)
             /\ \A i \in 1..Len(out) : out[i].ev # "insta review finished"

C5_KeepPendingStep ==
    (IsTest /\ cmd.keep_pending /\ child.state = "none") =>
        (pending' = pending /\ accepted' = accepted)

C5_RejectBeforeSpawn == [] C5_AtSpawn /\ [][C5_KeepPendingStep]_vars

C5_Witness ==
    /\ pc = "spawn" /\ ~cmd.keep_pending
    /\ Len(ps.rejected) >= 2 /\ Len(ps.snapshot_containers) >= 2
    /\ pending # {}

\* C6: in a pass with filter F an entry is decided (by the prompt or by the
\* bulk operation) exactly when F is absent or holds the entry's key, <file>
\* for an external and <file>:<line> for an inline entry; any other entry is
\* listed as skipped without a prompt, keeps its operation unset and is still
\* pending after the commit of its container, whatever the bulk operation.
C6_Key(e) == IF e.line = 0 THEN e.file ELSE e.file \o ":" \o ToString(e.line)

\* The entry at (c, i) has been through the body of the inner loop.
C6_Processed(c, i) ==
    \/ c < ps.ci
    \/ c = ps.ci /\ i < ps.ei
    \/ c = ps.ci /\ pc = "ps_commit"
    \/ ps.state = "ok"

C6_Committed(c) == c < ps.ci \/ ps.state = "ok"

C6_Prompted(key) == \E k \in 1..Len(out) : out[k].ev = "prompt" /\ out[k].text = key

C6_FilterDecides ==
    \A c \in 1..Len(ps.snapshot_containers) :
      \A i \in 1..Len(ps.snapshot_containers[c].refs) :
        LET ref == ps.snapshot_containers[c].refs[i]
            key == C6_Key(ref.entry)
            item == Summary(ref.entry.file, ref.entry.line)
            selected == ~ps.snapshot_filter.some \/ key \in ps.snapshot_filter.set
        IN  C6_Processed(c, i) =>
              IF selected
              THEN /\ ps.op # "None" =>
                        /\ ref.op = ps.op
                        /\ InSeq(item, IF ps.op = "Accept" THEN ps.accepted ELSE ps.rejected)
                        /\ ~InSeq(item, ps.skipped)
                   /\ ps.op = "None" =>
                        /\ C6_Prompted(key)
                        /\ ref.op = "Accept" <=> InSeq(item, ps.accepted)
                        /\ ref.op = "Reject" <=> InSeq(item, ps.rejected)
                        /\ ref.op = "Skip" <=> InSeq(item, ps.skipped)
                   /\ (C6_Committed(c) /\ ref.op # "Skip" /\ child.state = "none"
                          /\ ps.caller # "prerun") => ref.entry \notin pending
              ELSE /\ ref.op = OpUnset
                   /\ InSeq(item, ps.skipped)
                   /\ ~InSeq(item, ps.accepted) /\ ~InSeq(item, ps.rejected)
                   /\ ~C6_Prompted(key)
                   /\ ref.entry \in pending

C6_Witness ==
    /\ ps.state = "ok" /\ ps.snapshot_filter = [some |-> TRUE, set |-> {"b.rs", "b.rs:1"}]
    /\ ps.op = "Accept"
    /\ Len(ps.accepted) = 1 /\ Len(ps.skipped) >= 2
    /\ \E e \in pending : e.file = "b.rs" /\ e.line = 2

\* --------------------------------------------------------------- collector
\* The directories at or above the canonical directory `dir`.
Ancestors(dir) == { SubSeq(dir, 1, k) : k \in 1..Len(dir) }

\* What the collection step at hand works with.
CollectLoc == HandleTargetArgs(cmd.target_args)
CollectStep == pc = "collect" /\ ref_file.exists /\ CollectLoc.ok
KnownRoots == { Canonicalize(r) : r \in DeletionRoots(CollectLoc) }
WalkRoot == Canonicalize(CollectLoc.workspace_root)

\* C7: the collection never deletes a file whose canonical path is in the
\* referenced set, nor a file under a directory named "target" whose parent
\* is a known package or workspace root, nor a file inside a directory met by
\* the walk that holds its own manifest and is not a known root.
C7_DeletionStep ==
    CollectStep =>
        \A f \in tree \ tree' :
            /\ FilePath(f) \notin ReferencedFiles(ref_file.lines)
            /\ ~\E d \in Ancestors(f.dir) :
                   Last(d) = "target" /\ Parent(d) \in KnownRoots
            /\ ~\E d \in Ancestors(f.dir) :
                   /\ IsPrefix(WalkRoot, d) /\ d # WalkRoot
                   /\ HasManifest(d) /\ d \notin KnownRoots

C7_NeverDeletesProtected == [][C7_DeletionStep]_vars

\* C8: every walked file whose name ends in one of the configured
\* extensions (loc.exts, default "snap") and whose canonical path is not in
\* the referenced set is reported and, unless its removal fails, deleted; when
\* nothing is reported there is a single "no unreferenced snapshots found".
C8_Reported(f) ==
    \E k \in 1..Len(out') :
        /\ out'[k].ev = "deleted"
        /\ out'[k].text = PathStr(EntryPath(CollectLoc.workspace_root, FilePath(f)))

C8_CollectionStep ==
    CollectStep =>
        LET configured ==
              { f \in Walked(CollectLoc) :
                  /\ InSeq(f.ext, CollectLoc.exts)
                  /\ FilePath(f) \notin ReferencedFiles(ref_file.lines) }
        IN  /\ \A f \in configured : C8_Reported(f)
            /\ Cardinality(configured \cap tree') <= MaxRemoveFailures
            /\ tree' = tree =>
                  \/ Cardinality({k \in 1..Len(out') :
                        out'[k].text = "no unreferenced snapshots found"}) = 1
                  \/ \E k \in 1..Len(out') : out'[k].ev = "deleted"

C8_DeletesConfiguredExtensions == [][C8_CollectionStep]_vars

\* C9: a test run goes through its phases in the order pre-run reject pass,
\* spawn, child exit, collection, post-run pass or report, each at most once;
\* the collection happens only when deletion was requested and the child
\* exited with success, and the reference file is read only once the child
\* has exited.
PhaseRank(phase) ==
    CASE phase = "prerun" -> 1
      [] phase = "spawn" -> 2
      [] phase = "child_exit" -> 3
      [] phase = "collect" -> 4
      [] phase \in {"postrun", "report"} -> 5
      [] OTHER -> 0

C9_PhaseOrder ==
    IsTest =>
        /\ \A i, j \in 1..Len(phases) :
              i < j => 0 < PhaseRank(phases[i]) /\ PhaseRank(phases[i]) < PhaseRank(phases[j])
        /\ (InPhases("spawn") /\ InPhases("prerun")) =>
              (ps.caller = "postrun" \/ ps.state = "ok")
        /\ (InPhases("collect") \/ InPhases("postrun") \/ InPhases("report")) =>
              InPhases("child_exit")
        /\ (pc = "collect" \/ InPhases("collect")) =>
              /\ cmd.delete_unreferenced_snapshots
              /\ child.state = "exited" /\ child.status = 0
        /\ (pc = "post_run" \/ InPhases("postrun") \/ InPhases("report")) =>
              child.state = "exited" /\ child.status = 0
        /\ InPhases("child_exit") <=> child.state = "exited"
        /\ child.state = "running" => pc = "wait"

C9_Witness ==
    /\ IsTest /\ pc = "done" /\ result = Ok
    /\ phases = << "prerun", "spawn", "child_exit", "collect", "postrun" >>
    /\ tree # AllFiles /\ Len(ps.accepted) > 0

\* C10: discovery, the pending-snapshots command and the post-run path of a
\* test run with neither review nor accept change no accepted or candidate
\* artifact and assign no operation; a step of the tool that changes the
\* tree is a commit or the collection.
AllOpsUnset(p) ==
    \A c \in 1..Len(p.snapshot_containers) :
        \A i \in 1..Len(p.snapshot_containers[c].refs) :
            p.snapshot_containers[c].refs[i].op = OpUnset

StorageUnchanged == tree' = tree /\ pending' = pending /\ accepted' = accepted

C10_Step ==
    /\ pc = "process_snapshots" => StorageUnchanged /\ AllOpsUnset(ps')
    /\ opts.command = "pending-snapshots" => StorageUnchanged /\ ps' = NoPs
    /\ ( /\ IsTest /\ ~cmd.review /\ ~cmd.accept
         /\ child.state = "exited" /\ pc # "collect" ) =>
            StorageUnchanged /\ ps' = ps
    /\ ~StorageUnchanged => pc \in {"ps_commit", "collect"} \/ child.state = "running"

C10_ReadOnlyPaths == [][C10_Step]_vars

C10_Witness ==
    /\ IsTest /\ ~cmd.review /\ ~cmd.accept /\ pc = "done" /\ result = Ok
    /\ InPhases("report") /\ pending # {}
    /\ \E k \in 1..Len(out) : out[k].text = "snapshots to review" /\ out[k].i >= 2

\* ------------------------------------------------------- location resolver
\* The target arguments of the command being run.
CommandTargetArgs == IF IsTest THEN opts.test.target_args ELSE opts.target_args

\* handle_target_args has been called on them and its result acted upon.
TargetArgsResolved ==
    \/ InPhases("cmd") \/ InPhases("prerun") \/ InPhases("postrun")
    \/ InPhases("report") \/ InPhases("pending_report")

\* C11: the resolver fails with the conflict error exactly when both a
\* manifest path and a workspace root are given and the root holds no manifest
\* at its top level; when the given root directly holds a manifest the
\* resolution succeeds and is that of the root's manifest given as manifest
\* path.
C11_ConflictIffRootWithoutManifest ==
    TargetArgsResolved =>
        LET ta == CommandTargetArgs
            root == ta.workspace_root
            both == root # NoPath /\ ta.manifest_path # NoPath
            root_has_manifest == root # NoPath /\ HasManifest(Canonicalize(root))
            as_manifest == [ta EXCEPT !.workspace_root = NoPath,
                                      !.manifest_path = root \o <<"Cargo.toml">>]
        IN  /\ result = Err(ConflictError) <=> (both /\ ~root_has_manifest)
            /\ root_has_manifest =>
                  /\ HandleTargetArgs(ta).ok
                  /\ HandleTargetArgs(ta) = HandleTargetArgs(as_manifest)
                  /\ result.kind # "Err" \/ result.msg \notin {ConflictError, "cargo metadata"}

\* ------------------------------------------------------------- triage pass
\* Entries the pass has put on one of its three lists.
Listed(p) == Len(p.accepted) + Len(p.rejected) + Len(p.skipped)

\* C12: a commit that fails does not abort the pass: when the pass is over
\* and a commit has failed, every entry of every container has nevertheless
\* been given its decision and the last container has been reached, so no
\* decision taken for a later container is missing.
C12_CommitFailureDoesNotAbort ==
    (ps.state = "err" /\ result = Err("commit")) =>
        /\ ps.ci = Len(ps.snapshot_containers)
        /\ Listed(ps) = ps.snapshot_count

\* The pass stopped at a prompt: the process was interrupted, or read_key
\* failed.
PassStopped == result \in {Killed, Err("read_key")}

C13_AtStop ==
    PassStopped =>
        \A c \in 1..Len(ps.snapshot_containers) :
          \A i \in 1..Len(ps.snapshot_containers[c].refs) :
            LET ref == ps.snapshot_containers[c].refs[i]
            IN  IF c < ps.ci
                THEN /\ ref.op = "Skip" <=> ref.entry \in pending
                     /\ ref.op = "Accept" => accepted[ref.entry] = "new"
                ELSE ref.entry \in pending

\* Deciding an entry, at the prompt or by the bulk operation, writes nothing.
C13_DecisionStep ==
    pc \in {"ps_entry", "query_snapshot"} => StorageUnchanged

\* The commit of a container touches the entries of that container only.
C13_CommitStep ==
    pc = "ps_commit" =>
        \A e \in Entries :
            (\A i \in 1..Len(ps.snapshot_containers[ps.ci].refs) :
                 ps.snapshot_containers[ps.ci].refs[i].entry # e) =>
              /\ e \in pending' <=> e \in pending
              /\ accepted'[e] = accepted[e]

\* C13: when a pass stops, by interruption or by a read error of the prompt,
\* while the entries of container k are being decided, every container before
\* k is committed (its accepted and rejected entries are no longer pending),
\* and container k and every later container are as they were on disk: the
\* decisions taken so far for entries of container k are not applied.
C13_PartialPassDurability ==
    [] C13_AtStop /\ [][C13_DecisionStep /\ C13_CommitStep]_vars

\* Stopped at the prompt for b.rs:2, after a.snap was accepted and committed
\* and b.rs:1 was given Accept.
C13_Witness ==
    /\ PassStopped /\ ps.ci = 2 /\ ps.ei = 2
    /\ ps.snapshot_containers[1].refs[1].op = "Accept"
    /\ ps.snapshot_containers[1].refs[1].entry \notin pending
    /\ ps.snapshot_containers[2].refs[1].op = "Accept"
    /\ ps.snapshot_containers[2].refs[1].entry \in pending

\* ------------------------------------------------------------ reference file
\* C14: when a reference file was allocated, it is gone once the child has
\* exited and the command is over, whether the child succeeded or failed,
\* whether the location could be resolved and whether anything was deleted.
C14_RefFileRemoved ==
    (IsTest /\ snapshot_ref_file /\ child.state = "exited" /\ pc = "done") =>
        ~ref_file.exists

\* ------------------------------------------------------------------ prompt
\* query_snapshot returned `op` for the entry at hand: the operation is
\* recorded as lines 373-385 record it and the loop moves on.
C15_Returned(op) ==
    LET c == ps.snapshot_containers[ps.ci]
        item == Summary(c.target_file, c.refs[ps.ei].entry.line)
    IN  /\ pc' \in {"ps_entry", "ps_commit"}
        /\ result' = result
        /\ ps'.snapshot_containers[ps.ci].refs[ps.ei].op =
              (IF op = "Skip" THEN OpUnset ELSE op)
        /\ ps'.accepted = (IF op = "Accept" THEN Append(ps.accepted, item) ELSE ps.accepted)
        /\ ps'.rejected = (IF op = "Reject" THEN Append(ps.rejected, item) ELSE ps.rejected)
        /\ ps'.skipped = (IF op = "Skip" THEN Append(ps.skipped, item) ELSE ps.skipped)

\* A step of the prompt in which read_key returned.
C15_QueryStep ==
    (pc = "query_snapshot" /\ ps' # ps) =>
        LET key == ps'.key
        IN  /\ StorageUnchanged /\ out' = out
            /\ CASE key \in {"a", "Enter"} -> C15_Returned("Accept")
                 [] key \in {"r", "Escape"} -> C15_Returned("Reject")
                 [] key \in {"s", " "} -> C15_Returned("Skip")
                 [] key = ReadError ->
                      pc' = "done" /\ result' = Err("read_key")
                 [] OTHER ->
                      /\ pc' = "query_snapshot" /\ result' = result
                      /\ ps' = [ps EXCEPT !.key = key]

\* C15: the prompt returns Accept exactly for `a` or Enter, Reject exactly
\* for `r` or Escape, Skip exactly for `s` or Space; any other key gives no
\* decision, changes nothing and leaves the prompt waiting, so the prompt
\* returns only after a mapped key or a read error and what it returns is
\* determined by that one key.
C15_KeyMapping == [][C15_QueryStep]_vars

\* The first prompt was answered with Enter; at the second the key x was
\* read and the prompt is still up.
C15_Witness ==
    /\ pc = "query_snapshot" /\ ps.key = "x"
    /\ ps.num = 2 /\ Len(ps.accepted) = 1 /\ Len(ps.rejected) = 0

\* ------------------------------------------------------------ empty pass
\* The pass being entered has no pending entry in its scope.
C16_EmptyScope ==
    /\ pc = "process_snapshots"
    /\ HandleTargetArgs(ps.target_args).ok
    /\ \A e \in pending : ~InScope(HandleTargetArgs(ps.target_args), e)

\* Entering such a pass, when discovery itself did not fail: it returns Ok to
\* its caller at once.
C16_EmptyPassStep ==
    (C16_EmptyScope /\ result' # Err("discovery")) =>
        /\ ps'.state = "ok" /\ ps'.snapshot_count = 0 /\ ps'.ci = 0
        /\ IF ps.caller = "prerun"
           THEN pc' = "spawn" /\ result' = result
           ELSE pc' = "done" /\ result' = Ok /\ ExitCode(result') = 0
        /\ StorageUnchanged
        /\ out' = (IF ps.quiet THEN out
                   ELSE Append(out, Ev("done", "no snapshots to review", 0, 0)))
        /\ \A k \in 1..Len(out') : out'[k].ev # "prompt"

\* A pass that found nothing has visited no entry and no container.
C16_AfterEmptyPass ==
    (ps.state \in {"running", "ok"} /\ pc # "process_snapshots"
       /\ ps.snapshot_count = 0) =>
        /\ ps.state = "ok" /\ ps.ci = 0 /\ ps.num = 0 /\ Listed(ps) = 0
        /\ pc \notin {"ps_entry", "query_snapshot", "ps_commit"}

\* C16: a pass (review, accept, reject, or one made by test) over a scope in
\* which discovery finds no pending entry returns success without a prompt,
\* without the commit of any container and without a change to storage.
C16_EmptyPassIsNoOp == [] C16_AfterEmptyPass /\ [][C16_EmptyPassStep]_vars

\* Scenario A: review with nothing pending.
C16_Witness ==
    /\ opts.command = "review" /\ pending = {} /\ pc = "done" /\ result = Ok
    /\ ps.state = "ok" /\ ps.snapshot_count = 0
    /\ out = << Ev("done", "no snapshots to review", 0, 0) >>

\* ------------------------------------------------------- child invocation
\* C17: in the argument list built for the child, the separator "--" comes
\* before every passthrough argument (cargo_options), and "-q" comes after
\* the separator.
C17_SeparatorBeforePassthrough ==
    proc.built =>
        \E s \in 1..Len(proc.args) :
            /\ proc.args[s] = "--"
            /\ \A i \in 1..Len(proc.args) :
                   InSeq(proc.args[i], cmd.cargo_options) => s < i
            /\ \E q \in (s + 1)..Len(proc.args) : proc.args[q] = "-q"

\* test_run set the variable on the child's command.
C18_Set(var) == var # <<>>

C19_BadColor == ColorOf(opts) \notin {"auto", "always", "never"}
C19_BadUpdate ==
    env \notin { Unset, <<"">>, <<"auto">>, <<"new">>, <<"no">>, <<"always">>,
                 <<"unseen">> }
C19_BothGiven ==
    CommandTargetArgs.workspace_root # NoPath /\ CommandTargetArgs.manifest_path # NoPath

\* Nothing has run yet: no pass, no child, no output.
C19_NothingRan ==
    /\ ps = NoPs /\ phases = <<>> /\ out = <<>>
    /\ ~proc.built /\ child.state = "none" /\ ~ref_file.exists

\* No discovery has taken place: no location was resolved, no container
\* loaded, nothing listed, counted or deleted.
C19_NoDiscovery ==
    /\ ~ps.loc.ok /\ ps.snapshot_containers = <<>> /\ ps.snapshot_count = 0
    /\ out = <<>> /\ tree \in Trees

C19_AtError ==
    /\ (pc # "run" /\ C19_BadColor) =>
          pc = "done" /\ result = Err("invalid value for --color") /\ C19_NothingRan
    /\ (IsTest /\ pc \notin {"run", "test_run"} /\ ~C19_BadColor /\ C19_BadUpdate) =>
          pc = "done" /\ result = Err("invalid value for INSTA_UPDATE") /\ C19_NothingRan
    /\ (TargetArgsResolved /\ C19_BothGiven) =>
          pc = "done" /\ result = Err(ConflictError)
    /\ result = Err(ConflictError) => C19_NoDiscovery

\* The checks of --color and of INSTA_UPDATE write nothing.
C19_CheckStep == pc \in {"run", "test_run"} => StorageUnchanged

\* C19: a fatal configuration error is reported before any discovery: an
\* invalid --color ends the run before any command starts, an invalid
\* INSTA_UPDATE ends the test command with no pending entry rejected and no
\* child spawned, and the conflict of --manifest-path with --workspace-root
\* is reported with no container loaded.
C19_ConfigErrorsFirst == [] C19_AtError /\ [][C19_CheckStep]_vars

\* test without --keep-pending, INSTA_UPDATE=bogus, entries pending.
C19_Witness ==
    /\ IsTest /\ ~opts.test.keep_pending /\ C19_BadUpdate /\ pending # {}
    /\ pc = "done" /\ result = Err("invalid value for INSTA_UPDATE")

\* C20: in the test command, whatever the flags, when the target arguments
\* cannot be resolved (handle_target_args fails on them) the child test
\* process is never spawned and the command ends with an error.
C20_UnresolvedNeverSpawns ==
    (IsTest /\ ~HandleTargetArgs(opts.test.target_args).ok) =>
        /\ child.state = "none" /\ ~InPhases("spawn")
        /\ pc = "done" => result.kind = "Err"

\* ------------------------------------------------------ post-run decision
\* The three ways the test command can end after a successful child.
C21_Interactive == ps.caller = "postrun" /\ ps.op = "None"
C21_BulkAccept == ps.caller = "postrun" /\ ps.op = "Accept"
C21_ReportOnly == InPhases("report")

\* C21: after reconciliation review and accept are never both set, for every
\* INSTA_UPDATE value and every flag combination the command line admits
\* (review and accept not both given); so what follows a successful child is
\* exactly one of the interactive pass (review), the bulk-Accept pass
\* (accept) and the report (neither).
C21_ReviewAcceptExclusive ==
    (SetupDone /\ ~(opts.test.review /\ opts.test.accept)) =>
        /\ ~(cmd.review /\ cmd.accept)
        /\ C21_Interactive => cmd.review /\ ~cmd.accept
        /\ C21_BulkAccept => cmd.accept /\ ~cmd.review
        /\ C21_ReportOnly => ~cmd.review /\ ~cmd.accept
        /\ ps.caller = "postrun" => ps.op \in {"None", "Accept"}
        /\ ~(ps.caller = "postrun" /\ C21_ReportOnly)
        /\ (InPhases("child_exit") /\ child.status = 0 /\ pc = "done"
              /\ result # Panic("read_to_string")) =>
              (C21_Interactive \/ C21_BulkAccept \/ C21_ReportOnly)

\* INSTA_UPDATE=unseen without --review: reconciliation turned review on and
\* the post-run pass is at its prompt.
C21_Witness ==
    /\ IsTest /\ env = <<"unseen">> /\ ~opts.test.review /\ ~opts.test.accept
    /\ cmd.review /\ ~cmd.accept
    /\ C21_Interactive /\ pc = "query_snapshot"

\* ------------------------------------------------------------------ buckets
\* How often `item` occurs in a bucket.
Occurrences(item, bucket) == Cardinality({k \in 1..Len(bucket) : bucket[k] = item})

\* The pass went through every container and returned Ok.
PassCompleted == ps.state = "ok" /\ ps.snapshot_count > 0

\* C22: at the end of a completed pass every entry of the pass is listed once,
\* in exactly one of accepted, rejected and skipped, so the three sizes add up
\* to the count computed before the loop; an entry is under accepted (resp.
\* rejected) exactly when its operation was Accept (resp. Reject) at the
\* commit of its container, and an entry under skipped had its operation
\* left unset.
C22_BucketsPartitionEntries ==
    PassCompleted =>
        /\ Listed(ps) = ps.snapshot_count
        /\ ps.snapshot_count = SnapshotCount(ps.snapshot_containers)
        /\ \A c \in 1..Len(ps.snapshot_containers) :
             \A i \in 1..Len(ps.snapshot_containers[c].refs) :
               LET ref == ps.snapshot_containers[c].refs[i]
                   item == Summary(ps.snapshot_containers[c].target_file, ref.entry.line)
               IN  /\ Occurrences(item, ps.accepted) + Occurrences(item, ps.rejected)
                         + Occurrences(item, ps.skipped) = 1
                   /\ InSeq(item, ps.accepted) <=> ref.op = "Accept"
                   /\ InSeq(item, ps.rejected) <=> ref.op = "Reject"
                   /\ InSeq(item, ps.skipped) <=> ref.op = OpUnset

\* An interactive pass that ended with an entry in each bucket.
C22_Witness ==
    /\ PassCompleted /\ ps.op = "None"
    /\ Len(ps.accepted) >= 1 /\ Len(ps.rejected) >= 1 /\ Len(ps.skipped) >= 1
    /\ Printed("insta review finished")

\* ----------------------------------------------------------------- progress
IsPrompt(e) == e.ev = "prompt"
\* The prompts put up so far, in order.
Prompts == SelectSeq(out, IsPrompt)

\* C23: in an interactive pass the prompts show the pair (i, n) with n the
\* count computed before the loop and i = 1, 2, 3, ... growing by one with
\* each prompted entry, 1 <= i <= n; without a filter there is one prompt per
\* entry and the last one shows i = n.  A bulk pass puts up no prompt.
C23_ProgressCounter ==
    /\ ps.op # "None" => Prompts = <<>>
    /\ ps.op = "None" =>
         /\ \A k \in 1..Len(Prompts) :
              /\ Prompts[k].i = k
              /\ Prompts[k].n = ps.snapshot_count
              /\ 1 <= Prompts[k].i /\ Prompts[k].i <= Prompts[k].n
         /\ Len(Prompts) = ps.num
         /\ ~ps.snapshot_filter.some =>
              /\ ps.num = (IF ps.ci = 0 THEN 0
                           ELSE SumLen([c \in 1..(ps.ci - 1) |-> ps.snapshot_containers[c]], 1)
                                + (IF pc = "ps_entry" THEN ps.ei - 1 ELSE ps.ei))
              /\ PassCompleted =>
                   /\ Len(Prompts) = ps.snapshot_count
                   /\ Prompts[Len(Prompts)].i = ps.snapshot_count

\* review without filter over three or more entries, completed.
C23_Witness ==
    /\ PassCompleted /\ ps.op = "None" /\ ~ps.snapshot_filter.some
    /\ ps.snapshot_count >= 3 /\ Len(Prompts) = ps.snapshot_count
    /\ Prompts[Len(Prompts)].i = Prompts[Len(Prompts)].n

====
